---- MODULE Spec2Model ----
(***************************************************************************)
(* Certificate worker: issuance pipeline (P1 generate, P2 signature        *)
(* intake, P3 intermediate Merkle root, P4 ultimate root + anchoring,      *)
(* P5 QR artifact, P6 PDF augmentation) over a shared database, and the    *)
(* verifyCertificate result surface; the Merkle service and the            *)
(* fingerprint codec are also exercised on their own, as are the polling   *)
(* worker's shutdown, the Lambda SQS handler and the gas fee overrides.    *)
(*                                                                         *)
(* Hash values are symbolic: keccak256(x) is the injective term            *)
(* <<Len(x)>> \o x over byte strings written as sequences of naturals, and *)
(* Buffer.compare is the lexicographic order on those sequences.           *)
(***************************************************************************)
EXTENDS Integers, Sequences, FiniteSets, TLC

\* ------------------------------------------------------------------ bounds
P1Jobs == 2
IssueJobs == 2
IssueBatches == 1
PipeJobs == 2
PipeBatches == 1
MaxBodyRuns == 2
SignJobs == 2
AnchorBatches == 2
LiveJobs == 2
WorkerJobs == 1
LambdaJobs == 1
MaxRecords == 2
MRIBatches == 6
StatusJobs == 1
GweiKinds == 3
MaxLeaves == 5
LeafKinds == 5
HashKinds == 2

\* ------------------------------------------------------- program constants
MRIQueryLimit == 5
MRUBatchSize == 10
QRBatchLimit == 10
PDFQRQueryLimit == 10
WorkerConcurrentJobs == 5
AmoyChainId == 80002
DefaultMinPriorityGwei == 25
DoubleMantissaBits == 53

\* ------------------------------------------------------------- hash kernel
NullHash == <<>>

keccak256_lossy(bytes) == <<Len(bytes)>> \o SubSeq(bytes, 1, 1)

keccak256(bytes) == <<Len(bytes)>> \o bytes

RECURSIVE BufferCompare(_, _)
BufferCompare(a, b) ==
  IF a = <<>> THEN (IF b = <<>> THEN 0 ELSE -1)
  ELSE IF b = <<>> THEN 1
  ELSE IF Head(a) < Head(b) THEN -1
  ELSE IF Head(a) > Head(b) THEN 1
  ELSE BufferCompare(Tail(a), Tail(b))

\* A signature as submitted: hex text with or without the "0x" prefix.
NullSig == [prefixed |-> FALSE, bytes |-> <<>>]
ExtSig(n, pre) == [prefixed |-> pre, bytes |-> <<n>>]
ExtSigs == {ExtSig(7, TRUE), ExtSig(8, FALSE)}
\* crypto.sign(fingerprintHash, key): r||s hex without prefix; the
\* fingerprint hash is distinct per job.
sign(j) == [prefixed |-> FALSE, bytes |-> <<20 + j>>]

calculateMerkleLeaf_keepPrefix(signature) ==
  keccak256(IF signature.prefixed THEN <<0>> \o signature.bytes ELSE signature.bytes)

\* L = keccak256(bytes of SI with a leading "0x" removed)
calculateMerkleLeaf(signature) == keccak256(signature.bytes)

\* ----------------------------------------------------------- Merkle engine
\* merkletreejs with { sortPairs: true }: pairs are sorted before hashing,
\* an unpaired last node is carried up unchanged.
SortedPairHash_unsorted(a, b) == keccak256(a \o b)

SortedPairHash(a, b) ==
  IF BufferCompare(a, b) = 1 THEN keccak256(b \o a) ELSE keccak256(a \o b)

RECURSIVE createLayer_duplicateOdd(_)
RECURSIVE createLayer(_)
createLayer_duplicateOdd(nodes) ==
  IF Len(nodes) = 0 THEN <<>>
  ELSE IF Len(nodes) = 1 THEN <<SortedPairHash(nodes[1], nodes[1])>>
  ELSE <<SortedPairHash(nodes[1], nodes[2])>>
         \o createLayer_duplicateOdd(SubSeq(nodes, 3, Len(nodes)))

createLayer(nodes) ==
  IF Len(nodes) = 0 THEN <<>>
  ELSE IF Len(nodes) = 1 THEN <<nodes[1]>>
  ELSE <<SortedPairHash(nodes[1], nodes[2])>> \o createLayer(SubSeq(nodes, 3, Len(nodes)))

RECURSIVE createHashes(_)
createHashes(nodes) ==
  IF Len(nodes) <= 1 THEN <<nodes>> ELSE <<nodes>> \o createHashes(createLayer(nodes))

buildMerkleTree(leaves) == createHashes(leaves)

getMerkleRoot(tree) ==
  LET top == tree[Len(tree)] IN IF Len(top) = 0 THEN NullHash ELSE top[1]

RECURSIVE ProofFrom(_, _, _)
ProofFrom(tree, lvl, idx0) ==
  IF lvl > Len(tree) THEN <<>>
  ELSE LET layer == tree[lvl]
           isRight == idx0 % 2
           pairIndex == IF isRight = 1 THEN idx0 - 1 ELSE idx0 + 1
           item == IF pairIndex < Len(layer)
                   THEN <<[position |-> IF isRight = 1 THEN "left" ELSE "right",
                           data |-> layer[pairIndex + 1]]>>
                   ELSE <<>>
       IN item \o ProofFrom(tree, lvl + 1, idx0 \div 2)

\* tree.getProof(leaf): the index is the last position holding the leaf.
getMerkleProof(tree, leaf) ==
  LET S == {i \in 1..Len(tree[1]) : tree[1][i] = leaf}
  IN IF S = {} THEN <<>>
     ELSE ProofFrom(tree, 1, (CHOOSE i \in S : \A k \in S : k <= i) - 1)

\* A proof column that was never written (SQL NULL).
NullProof == <<[position |-> "null", data |-> NullHash]>>

RECURSIVE ProofFold(_, _)
ProofFold(hash, proof) ==
  IF proof = <<>> THEN hash
  ELSE ProofFold(SortedPairHash(hash, Head(proof).data), Tail(proof))

\* proof.map(p => ({ position: p.position, data: Buffer.from(p.data, 'hex') }))
\* throws for null and for an element that is a plain hex string (position
\* "none"), which has no data property
verifyMerkleProofThrows(proof) ==
  \/ proof = NullProof
  \/ \E i \in 1..Len(proof) : proof[i].position = "none"

\* a throw is not a successful verification
verifyMerkleProof(leaf, proof, root) ==
  IF verifyMerkleProofThrows(proof) THEN FALSE ELSE ProofFold(leaf, proof) = root

buildBatchMerkleRoot(leaves) ==
  LET tree == buildMerkleTree(leaves)
  IN [merkleRoot |-> getMerkleRoot(tree), tree |-> tree]

\* -------------------------------------------------------------------- state
VARIABLES
  job,             \* document_jobs rows
  batch,           \* document_batches rows
  clock,           \* source of finalizedAt timestamps
  chain,           \* roots anchored on chain; a txHash is an index into it
  chainUp,         \* whether the RPC endpoint accepts submissions
  storageDriver,   \* StorageFactory.getStorage().getName()
  isRunning,       \* the flag every polling loop of the worker process tests
  fetched,         \* ids returned by fetchPendingJobs and not yet handed on
  lam,             \* one invocation of the Lambda handler
  fee,             \* one fee computation of anchorMRUToBlockchain
  p1,              \* processJobById invocations
  processingJobs,  \* per process: ids currently inside processJobById
  bodyRuns,        \* per job: how many times the processing body was entered
  zeroRows,        \* jobs for which some claim changed zero rows
  p2,              \* processSignatures invocations
  p3,              \* startMRIPollingMode loops
  p4,              \* startMRUPollingMode loops
  p5,              \* startQRCodePollingMode loop
  p6,              \* startPDFQRPollingMode loop
  vc,              \* verifyCertificate invocation: position and result object
  mk,              \* a Merkle tree built from a list of leaves, and one of its proofs
  fp               \* a document fingerprint being encoded and decoded

dbVars == <<job, batch, clock, chain>>
envVars == <<chainUp, storageDriver, isRunning>>
p1Vars == <<p1, processingJobs, bodyRuns, zeroRows, fetched, lam>>
p2Vars == <<p2>>
toolVars == <<vc, mk, fp, fee>>
vars == <<job, batch, clock, chain, chainUp, storageDriver, isRunning, fetched, lam,
          p1, processingJobs, bodyRuns, zeroRows, p2, p3, p4, p5, p6, vc, mk, fp, fee>>

P1Callers == {"c1", "c2", "c3"}
Procs == {"A", "B"}
procOf(c) == IF c = "c3" THEN "B" ELSE "A"
P2Callers == {"s1", "s2"}
P3Workers == {"m1", "m2"}
P4Workers == {"u1", "u2"}

NewJob(b) ==
  [batchId |-> b, status |-> "Pending", errorMessage |-> FALSE,
   certificatePath |-> FALSE, issuerSignature |-> NullSig, merkleLeaf |-> NullHash,
   merkleProofIntermediate |-> NullProof, merkleProofUltimate |-> NullProof,
   qrCodePath |-> FALSE, certificateWithQRPath |-> FALSE]

NewBatch(key) ==
  [status |-> "Pending", signingKey |-> key, signingStatus |-> "null",
   merkleRoot |-> NullHash, merkleRootUltimate |-> NullHash,
   merkleProofUltimate |-> NullProof, txHash |-> 0, finalizedAt |-> 0]

P1Idle == [pc |-> "idle", jobId |-> 0, signed |-> FALSE]
P2Idle == [pc |-> "idle", jobId |-> 0, signature |-> NullSig]
P3Idle == [pc |-> "poll", batches |-> <<>>, idx |-> 0, pendingCount |-> 0,
           jobs |-> <<>>, k |-> 0]
P4Idle == [pc |-> "poll", batches |-> <<>>, idx |-> 0, tx |-> 0]
P5Idle == [pc |-> "poll", jobs |-> {}]
P6Idle == [pc |-> "poll", jobs |-> {}, cur |-> 0]
\* const result = { valid: false, errors: [], warnings: [], steps: {} }
VCIdle ==
  [pc |-> "idle", valid |-> FALSE, errors |-> {}, warnings |-> {},
   steps |-> [signatureVerified |-> FALSE, intermediateProofValid |-> FALSE,
              ultimateProofValid |-> FALSE],
   doc |-> [source |-> "none", job |-> 0, tamper |-> "none", intact |-> TRUE],
   keys |-> [qr |-> 0, vd |-> 0, env |-> 0], keyUsed |-> 0,
   tx |-> [ran |-> FALSE, receipt |-> "none", eventRoot |-> <<>>, verified |-> FALSE]]
MKIdle ==
  [pc |-> "idle", leaves |-> <<>>, root |-> <<>>, leaf |-> <<>>, proof |-> <<>>,
   y |-> <<>>, ok |-> FALSE]
FPIdle ==
  [pc |-> "idle", documentHash |-> <<>>, Ed |-> <<>>, Ei |-> <<>>,
   fingerprint |-> <<>>, out |-> <<>>]

Jobs == DOMAIN job
Batches == DOMAIN batch

JobsOfBatch(b) == {j \in Jobs : job[j].batchId = b}

\* sample amounts in gwei, below and above the Amoy minimum
GweiSamples == {12 * k : k \in 1..GweiKinds}

\* a fee that the provider or the environment does not supply (null)
Absent == 0 - 1
FeeOverrides(priority, maxFee) == [maxPriorityFeePerGas |-> priority, maxFeePerGas |-> maxFee]
FeeIdle ==
  [pc |-> "idle", chainId |-> 0, minPriorityFromEnv |-> Absent, minMaxFeeFromEnv |-> Absent,
   lookupFails |-> FALSE, suggestedPriority |-> Absent, suggestedMaxFee |-> Absent,
   baseFee |-> Absent, tx |-> FeeOverrides(Absent, Absent)]

LamIdle == [pc |-> "done", Records |-> <<>>, idx |-> 0, batchItemFailures |-> {},
            failed |-> {}]

InitWorkers ==
  /\ p1 = [c \in P1Callers |-> P1Idle]
  /\ processingJobs = [p \in Procs |-> {}]
  /\ bodyRuns = [j \in Jobs |-> IF job[j].status = "Pending" THEN 0 ELSE 1]
  /\ zeroRows = {}
  /\ p2 = [s \in P2Callers |-> P2Idle]
  /\ p3 = [w \in P3Workers |-> P3Idle]
  /\ p4 = [w \in P4Workers |-> P4Idle]
  /\ p5 = P5Idle
  /\ p6 = P6Idle
  /\ isRunning = TRUE
  /\ fetched = {}

InitProcs ==
  /\ InitWorkers
  /\ lam = LamIdle
  /\ fee = FeeIdle
  /\ vc = VCIdle
  /\ mk = MKIdle
  /\ fp = FPIdle

\* Jobs are spread over the batches round robin; creation order is id order.
InitDB(nJobs, nBatches) ==
  /\ job = [j \in 1..nJobs |-> NewJob(((j - 1) % nBatches) + 1)]
  /\ batch \in [1..nBatches -> {NewBatch(TRUE), NewBatch(FALSE)}]
  /\ clock = 0
  /\ chain = <<>>

\* A job as P1 with auto-signing, or P1 followed by P2, leaves it.
SignedJob(b, signature) ==
  [NewJob(b) EXCEPT !.status = "Generated", !.certificatePath = TRUE,
                    !.issuerSignature = signature,
                    !.merkleLeaf = <<Len(signature.bytes)>> \o signature.bytes]

\* ------------------------------------------------------- P1: processJobById
markJobAsProcessing_noStatusGuard(j) == IF j \in Jobs THEN 1 ELSE 0

\* UPDATE ... SET status='Processing' WHERE id=j AND status='Pending'
markJobAsProcessing(j) == IF job[j].status = "Pending" THEN 1 ELSE 0

\* UPDATE ... SET status, ...updates WHERE id=j
updateJobStatus(j, status, updates) ==
  [job EXCEPT ![j] = [f \in DOMAIN job[j] |->
     IF f = "status" THEN status
     ELSE IF f \in DOMAIN updates THEN updates[f] ELSE job[j][f]]]

PJ_Enter(c, j) ==
  /\ p1[c].pc = "idle"
  /\ j \notin processingJobs[procOf(c)]
  /\ processingJobs' = [processingJobs EXCEPT ![procOf(c)] = @ \cup {j}]
  /\ p1' = [p1 EXCEPT ![c] = [P1Idle EXCEPT !.pc = "mark", !.jobId = j]]
  /\ UNCHANGED <<dbVars, envVars, toolVars, bodyRuns, zeroRows, p2Vars, p3, p4, p5, p6>>

PJ_Mark(c) ==
  /\ p1[c].pc = "mark"
  /\ LET j == p1[c].jobId IN
     \E dbError \in BOOLEAN :
       IF ~dbError /\ markJobAsProcessing(j) > 0
       THEN /\ bodyRuns[j] < MaxBodyRuns
            /\ job' = [job EXCEPT ![j].status = "Processing"]
            /\ bodyRuns' = [bodyRuns EXCEPT ![j] = @ + 1]
            /\ p1' = [p1 EXCEPT ![c].pc = "body"]
            /\ UNCHANGED <<processingJobs, zeroRows>>
       ELSE /\ processingJobs' = [processingJobs EXCEPT ![procOf(c)] = @ \ {j}]
            /\ zeroRows' = IF dbError THEN zeroRows ELSE zeroRows \cup {j}
            /\ p1' = [p1 EXCEPT ![c] = P1Idle]
            /\ UNCHANGED <<job, bodyRuns>>
  /\ UNCHANGED <<batch, clock, chain, envVars, toolVars, fetched, p2Vars, p3, p4, p5, p6>>

\* render/load, store, hash, fingerprint and (with a batch key) auto-sign
PJ_Body(c) ==
  /\ p1[c].pc = "body"
  /\ LET j == p1[c].jobId IN
     \E throws \in BOOLEAN, signOk \in BOOLEAN :
       p1' = [p1 EXCEPT ![c].pc = IF throws THEN "fail" ELSE "write",
                        ![c].signed = ~throws /\ signOk /\ batch[job[j].batchId].signingKey]
  /\ UNCHANGED <<dbVars, envVars, toolVars, processingJobs, bodyRuns, zeroRows, fetched,
                 p2Vars, p3, p4, p5, p6>>

PJ_Write(c) ==
  /\ p1[c].pc = "write"
  /\ LET j == p1[c].jobId
         si == IF p1[c].signed THEN sign(j) ELSE NullSig
         leaf == IF p1[c].signed THEN calculateMerkleLeaf(si) ELSE NullHash
         nextStatus == IF p1[c].signed THEN "Generated" ELSE "PendingSigning"
     IN \E dbError \in BOOLEAN :
       IF dbError
       THEN /\ p1' = [p1 EXCEPT ![c].pc = "fail"]
            /\ UNCHANGED <<job, processingJobs>>
       ELSE /\ job' = updateJobStatus(j, nextStatus,
                        [certificatePath |-> TRUE, issuerSignature |-> si,
                         merkleLeaf |-> leaf, errorMessage |-> FALSE])
            /\ processingJobs' = [processingJobs EXCEPT ![procOf(c)] = @ \ {j}]
            /\ p1' = [p1 EXCEPT ![c] = P1Idle]
  /\ UNCHANGED <<batch, clock, chain, envVars, toolVars, bodyRuns, zeroRows, fetched,
                 p2Vars, p3, p4, p5, p6>>

\* catch (error) { await updateJobStatus(jobId, 'Failed', ...) } finally {...}:
\* with dbError the write is rejected and so is the call
PJ_Catch(c, dbError) ==
  /\ p1[c].pc = "fail"
  /\ LET j == p1[c].jobId IN
       /\ job' = IF dbError THEN job
                 ELSE updateJobStatus(j, "Failed", [errorMessage |-> TRUE])
       /\ processingJobs' = [processingJobs EXCEPT ![procOf(c)] = @ \ {j}]
       /\ p1' = [p1 EXCEPT ![c] = P1Idle]
  /\ UNCHANGED <<batch, clock, chain, envVars, toolVars, bodyRuns, zeroRows, fetched,
                 p2Vars, p3, p4, p5, p6>>

PJ_Fail(c) == \E dbError \in BOOLEAN : PJ_Catch(c, dbError)

\* any caller (the Lambda handler passes the id found in the SQS message)
processJobById(c) ==
  /\ \/ \E j \in Jobs : PJ_Enter(c, j)
     \/ PJ_Mark(c)
     \/ PJ_Body(c)
     \/ PJ_Write(c)
     \/ PJ_Fail(c)
  /\ UNCHANGED <<fetched, lam>>

\* the head of every polling loop: while (isRunning) { ... }
LoopCondition_whileWork ==
  isRunning \/ \E j \in Jobs : job[j].status = "Pending"

LoopCondition == isRunning

\* jobs = await fetchPendingJobs(concurrentJobs):
\* findAll({ where: { status: 'Pending' }, limit })
fetchPendingJobs(c) ==
  /\ LoopCondition
  /\ p1[c].pc = "idle"
  /\ fetched = {}
  /\ LET S == {j \in Jobs : job[j].status = "Pending"} IN
     /\ S # {}
     /\ \E T \in {U \in SUBSET S : Cardinality(U) = IF Cardinality(S) < WorkerConcurrentJobs
                                                      THEN Cardinality(S)
                                                      ELSE WorkerConcurrentJobs} :
          fetched' = T
  /\ UNCHANGED <<dbVars, envVars, toolVars, p1, processingJobs, bodyRuns, zeroRows, lam,
                 p2Vars, p3, p4, p5, p6>>

\* the polling loop of one process: ids come from fetchPendingJobs, and the
\* next fetch waits for every call of the previous one
startPollingMode(c) ==
  \/ fetchPendingJobs(c)
  \/ \E j \in fetched : PJ_Enter(c, j) /\ fetched' = fetched \ {j} /\ UNCHANGED lam
  \/ (PJ_Mark(c) \/ PJ_Body(c) \/ PJ_Write(c) \/ PJ_Fail(c)) /\ UNCHANGED lam

\* ------------------------------------------------- P2: processSignatures
\* One {jobId, signature} element of the submitted array.
PS_Find(s, j, signature) ==
  /\ p2[s].pc = "idle"
  /\ job[j].status = "PendingSigning"
  /\ p2' = [p2 EXCEPT ![s] = [pc |-> "update", jobId |-> j, signature |-> signature]]
  /\ UNCHANGED <<dbVars, envVars, toolVars, p1Vars, p3, p4, p5, p6>>

\* job.update({issuerSignature, merkleLeaf, status}): UPDATE ... WHERE id=j
PS_Update(s) ==
  /\ p2[s].pc = "update"
  /\ LET j == p2[s].jobId IN
     \E dbError \in BOOLEAN :
       job' = IF dbError THEN job
              ELSE [job EXCEPT ![j].issuerSignature = p2[s].signature,
                               ![j].merkleLeaf = calculateMerkleLeaf(p2[s].signature),
                               ![j].status = "Generated"]
  /\ p2' = [p2 EXCEPT ![s] = P2Idle]
  /\ UNCHANGED <<batch, clock, chain, envVars, toolVars, p1Vars, p3, p4, p5, p6>>

processSignatures(s) ==
  \/ \E j \in Jobs, signature \in ExtSigs : PS_Find(s, j, signature)
  \/ PS_Update(s)

\* ---------------------------- P3: startMRIPollingMode and finalizeBatch
RECURSIVE SortedSeq(_)
SortedSeq(S) ==
  IF S = {} THEN <<>>
  ELSE LET m == CHOOSE x \in S : \A y \in S : x <= y
       IN <<m>> \o SortedSeq(S \ {m})

\* Every order in which a query without ORDER BY may return the rows of S.
RECURSIVE Orderings(_)
Orderings(S) ==
  IF S = {} THEN {<<>>}
  ELSE UNION {{<<x>> \o q : q \in Orderings(S \ {x})} : x \in S}

Take(q, n) == SubSeq(q, 1, IF Len(q) < n THEN Len(q) ELSE n)

CountJobs(b, status) == Cardinality({j \in JobsOfBatch(b) : job[j].status = status})

MRICandidate(b) ==
  /\ batch[b].merkleRoot = NullHash
  /\ batch[b].signingStatus \in {"Signed", "null"}

\* if (pendingCount === 0 && generatedCount > 0)
ReadyToFinalize(pendingCount, generatedCount) == pendingCount = 0 /\ generatedCount > 0

P3Batch(w) == p3[w].batches[p3[w].idx].id

\* next element of `for (const batch of batches)`, or sleep until the next poll
P3Advance(w) ==
  IF p3[w].idx < Len(p3[w].batches)
  THEN [P3Idle EXCEPT !.pc = "countPending", !.batches = p3[w].batches, !.idx = p3[w].idx + 1]
  ELSE P3Idle

MRI_Poll(w) ==
  /\ LoopCondition
  /\ p3[w].pc = "poll"
  /\ LET S == {b \in Batches : MRICandidate(b)} IN
     /\ S # {}
     /\ \E T \in {U \in SUBSET S :
                    Cardinality(U) = Len(Take([i \in 1..Cardinality(S) |-> i], MRIQueryLimit))} :
        \E q \in Orderings(T) :
          p3' = [p3 EXCEPT ![w] = [P3Idle EXCEPT
                   !.pc = "countPending", !.idx = 1,
                   !.batches = [i \in 1..Len(q) |->
                                 [id |-> q[i], signingStatus |-> batch[q[i]].signingStatus]]]]
  /\ UNCHANGED <<dbVars, envVars, toolVars, p1Vars, p2Vars, p4, p5, p6>>

MRI_CountPending(w) ==
  /\ p3[w].pc = "countPending"
  /\ p3' = [p3 EXCEPT ![w].pc = "countGenerated",
                      ![w].pendingCount = CountJobs(P3Batch(w), "PendingSigning")]
  /\ UNCHANGED <<dbVars, envVars, toolVars, p1Vars, p2Vars, p4, p5, p6>>

MRI_CountGenerated(w) ==
  /\ p3[w].pc = "countGenerated"
  /\ p3' = [p3 EXCEPT ![w] =
       IF ReadyToFinalize(p3[w].pendingCount, CountJobs(P3Batch(w), "Generated"))
       THEN [p3[w] EXCEPT !.pc = "markSigned"]
       ELSE P3Advance(w)]
  /\ UNCHANGED <<dbVars, envVars, toolVars, p1Vars, p2Vars, p4, p5, p6>>

\* batch.update({signingStatus: 'Signed'}) on the row object read by the poll:
\* an UPDATE by primary key, skipped when the object already says 'Signed'.
MRI_MarkSigned(w) ==
  /\ p3[w].pc = "markSigned"
  /\ batch' = IF p3[w].batches[p3[w].idx].signingStatus = "Signed" THEN batch
              ELSE [batch EXCEPT ![P3Batch(w)].signingStatus = "Signed"]
  /\ p3' = [p3 EXCEPT ![w].pc = "findBatch"]
  /\ UNCHANGED <<job, clock, chain, envVars, toolVars, p1Vars, p2Vars, p4, p5, p6>>

FB_FindBatch(w) ==
  /\ p3[w].pc = "findBatch"
  /\ p3' = [p3 EXCEPT ![w] =
       IF batch[P3Batch(w)].signingStatus = "Finalized"
       THEN P3Advance(w)
       ELSE [p3[w] EXCEPT !.pc = "findJobs"]]
  /\ UNCHANGED <<dbVars, envVars, toolVars, p1Vars, p2Vars, p4, p5, p6>>

\* findAll({batchId, status: 'Generated'}, order createdAt ASC); the row
\* objects keep the merkleLeaf values read here.
FB_FindJobs(w) ==
  /\ p3[w].pc = "findJobs"
  /\ LET ids == SortedSeq({j \in JobsOfBatch(P3Batch(w)) : job[j].status = "Generated"})
         rows == [i \in 1..Len(ids) |-> [id |-> ids[i], merkleLeaf |-> job[ids[i]].merkleLeaf]]
     IN p3' = [p3 EXCEPT ![w] =
          IF Len(rows) = 0 \/ \E i \in 1..Len(rows) : rows[i].merkleLeaf = NullHash
          THEN P3Idle
          ELSE [p3[w] EXCEPT !.pc = "writeProof", !.jobs = rows, !.k = 1]]
  /\ UNCHANGED <<dbVars, envVars, toolVars, p1Vars, p2Vars, p4, p5, p6>>

P3Leaves(w) == [i \in 1..Len(p3[w].jobs) |-> p3[w].jobs[i].merkleLeaf]

FB_WriteProof(w) ==
  /\ p3[w].pc = "writeProof"
  /\ LET row == p3[w].jobs[p3[w].k]
         tree == buildBatchMerkleRoot(P3Leaves(w)).tree
     IN job' = [job EXCEPT ![row.id].merkleProofIntermediate =
                                getMerkleProof(tree, row.merkleLeaf)]
  /\ p3' = [p3 EXCEPT ![w] = IF p3[w].k < Len(p3[w].jobs)
                             THEN [p3[w] EXCEPT !.k = p3[w].k + 1]
                             ELSE [p3[w] EXCEPT !.pc = "writeRoot"]]
  /\ UNCHANGED <<batch, clock, chain, envVars, toolVars, p1Vars, p2Vars, p4, p5, p6>>

\* batch.update({merkleRoot, signingStatus: 'Finalized', finalizedAt: new Date()})
FB_WriteRoot(w) ==
  /\ p3[w].pc = "writeRoot"
  /\ batch' = [batch EXCEPT ![P3Batch(w)].merkleRoot =
                                buildBatchMerkleRoot(P3Leaves(w)).merkleRoot,
                            ![P3Batch(w)].signingStatus = "Finalized",
                            ![P3Batch(w)].finalizedAt = clock + 1]
  /\ clock' = clock + 1
  /\ p3' = [p3 EXCEPT ![w] = P3Advance(w)]
  /\ UNCHANGED <<job, chain, envVars, toolVars, p1Vars, p2Vars, p4, p5, p6>>

\* a rejected database call inside the tick: logged, the loop sleeps and polls again
MRI_Error(w) ==
  /\ p3[w].pc \notin {"poll", "stopped"}
  /\ p3' = [p3 EXCEPT ![w] = P3Idle]
  /\ UNCHANGED <<dbVars, envVars, toolVars, p1Vars, p2Vars, p4, p5, p6>>

finalizeBatch(w) ==
  \/ FB_FindBatch(w)
  \/ FB_FindJobs(w)
  \/ FB_WriteProof(w)
  \/ FB_WriteRoot(w)

startMRIPollingMode(w) ==
  \/ MRI_Error(w)
  \/ MRI_Poll(w)
  \/ MRI_CountPending(w)
  \/ MRI_CountGenerated(w)
  \/ MRI_MarkSigned(w)
  \/ finalizeBatch(w)

\* ------------------- P4: startMRUPollingMode and processMRUCalculation
\* where: { signingStatus: 'Finalized', merkleRoot != null, merkleRootUltimate: null }
MRUCandidate(b) ==
  /\ batch[b].signingStatus = "Finalized"
  /\ batch[b].merkleRoot # NullHash
  /\ batch[b].merkleRootUltimate = NullHash

\* order: [['finalizedAt', 'ASC']]
RECURSIVE ByFinalizedAt(_)
ByFinalizedAt(S) ==
  IF S = {} THEN <<>>
  ELSE LET m == CHOOSE x \in S : \A y \in S :
                  \/ batch[x].finalizedAt < batch[y].finalizedAt
                  \/ batch[x].finalizedAt = batch[y].finalizedAt /\ x <= y
       IN <<m>> \o ByFinalizedAt(S \ {m})

getBatchesReadyForMRU(limit) ==
  LET q == Take(ByFinalizedAt({b \in Batches : MRUCandidate(b)}), limit)
  IN [i \in 1..Len(q) |-> [id |-> q[i], merkleRoot |-> batch[q[i]].merkleRoot]]

calculateUltimateMerkleRoot_rootBeforePadding(mriLeaves) ==
  LET padded == IF Len(mriLeaves) = 1
                THEN mriLeaves \o <<keccak256(mriLeaves[1])>> ELSE mriLeaves
  IN [merkleRootUltimate |-> buildBatchMerkleRoot(mriLeaves).merkleRoot,
      tree |-> buildBatchMerkleRoot(padded).tree]

\* a single MRI is padded with keccak256(MRI) so that its proof is not empty
calculateUltimateMerkleRoot(mriLeaves) ==
  LET padded == IF Len(mriLeaves) = 1
                THEN mriLeaves \o <<keccak256(mriLeaves[1])>> ELSE mriLeaves
      r == buildBatchMerkleRoot(padded)
  IN [merkleRootUltimate |-> r.merkleRoot, tree |-> r.tree]

P4Roots(w) == [i \in 1..Len(p4[w].batches) |-> p4[w].batches[i].merkleRoot]
P4Batch(w) == p4[w].batches[p4[w].idx].id

MRU_Poll(w) ==
  /\ LoopCondition
  /\ p4[w].pc = "poll"
  /\ LET rows == getBatchesReadyForMRU(MRUBatchSize) IN
     /\ Len(rows) > 0
     /\ p4' = [p4 EXCEPT ![w] = [P4Idle EXCEPT !.pc = "writeMRU", !.batches = rows, !.idx = 1]]
  /\ UNCHANGED <<dbVars, envVars, toolVars, p1Vars, p2Vars, p3, p5, p6>>

\* updateBatchesWithMRU: batch.update({merkleRootUltimate, merkleProofUltimate})
MRU_WriteBatch(w) ==
  /\ p4[w].pc = "writeMRU"
  /\ LET u == calculateUltimateMerkleRoot(P4Roots(w)) IN
     batch' = [batch EXCEPT
       ![P4Batch(w)].merkleRootUltimate = u.merkleRootUltimate,
       ![P4Batch(w)].merkleProofUltimate =
           getMerkleProof(u.tree, p4[w].batches[p4[w].idx].merkleRoot)]
  /\ p4' = [p4 EXCEPT ![w].pc = "propagate"]
  /\ UNCHANGED <<job, clock, chain, envVars, toolVars, p1Vars, p2Vars, p3, p5, p6>>

\* updateBatchesWithMRU: DocumentJob.update({merkleProofUltimate}, {where: {batchId}})
MRU_Propagate(w) ==
  /\ p4[w].pc = "propagate"
  /\ LET u == calculateUltimateMerkleRoot(P4Roots(w))
         mpu == getMerkleProof(u.tree, p4[w].batches[p4[w].idx].merkleRoot)
     IN job' = [j \in Jobs |-> IF job[j].batchId = P4Batch(w)
                               THEN [job[j] EXCEPT !.merkleProofUltimate = mpu]
                               ELSE job[j]]
  /\ p4' = [p4 EXCEPT ![w] = IF p4[w].idx < Len(p4[w].batches)
                             THEN [p4[w] EXCEPT !.pc = "writeMRU", !.idx = p4[w].idx + 1]
                             ELSE [p4[w] EXCEPT !.pc = "anchor"]]
  /\ UNCHANGED <<batch, clock, chain, envVars, toolVars, p1Vars, p2Vars, p3, p5, p6>>

\* anchorMRUToBlockchain: one transaction carrying the root, or a failure that
\* processMRUCalculation logs and swallows
MRU_Anchor(w) ==
  /\ p4[w].pc = "anchor"
  /\ IF chainUp
     THEN /\ chain' = Append(chain, calculateUltimateMerkleRoot(P4Roots(w)).merkleRootUltimate)
          /\ p4' = [p4 EXCEPT ![w].pc = "writeTx", ![w].idx = 1, ![w].tx = Len(chain) + 1]
     ELSE /\ chain' = chain
          /\ p4' = [p4 EXCEPT ![w] = P4Idle]
  /\ UNCHANGED <<job, batch, clock, envVars, toolVars, p1Vars, p2Vars, p3, p5, p6>>

\* batch.update({txHash, network}) for every batch of the run
MRU_WriteTx(w) ==
  /\ p4[w].pc = "writeTx"
  /\ batch' = [batch EXCEPT ![P4Batch(w)].txHash = p4[w].tx]
  /\ p4' = [p4 EXCEPT ![w] = IF p4[w].idx < Len(p4[w].batches)
                             THEN [p4[w] EXCEPT !.idx = p4[w].idx + 1]
                             ELSE [p4[w] EXCEPT !.pc = "regenVD", !.idx = 1]]
  /\ UNCHANGED <<job, clock, chain, envVars, toolVars, p1Vars, p2Vars, p3, p5, p6>>

\* generateVerificationBundle(jobId): rebuilds the bundle from the current rows
\* and stores it with the job's copy of the batch MPU (the bundle JSON itself
\* is not part of the state)
generateVerificationBundle(j) ==
  [job[j] EXCEPT !.merkleProofUltimate = batch[job[j].batchId].merkleProofUltimate]

MRU_RegenVD(w) ==
  /\ p4[w].pc = "regenVD"
  /\ job' = [j \in Jobs |-> IF job[j].batchId = P4Batch(w) /\ job[j].status = "Generated"
                            THEN generateVerificationBundle(j) ELSE job[j]]
  /\ p4' = [p4 EXCEPT ![w].pc = "clearCert"]
  /\ UNCHANGED <<batch, clock, chain, envVars, toolVars, p1Vars, p2Vars, p3, p5, p6>>

\* DocumentJob.update({certificateWithQRPath: null}, {where: {batchId, not null}})
MRU_ClearCert(w) ==
  /\ p4[w].pc = "clearCert"
  /\ job' = [j \in Jobs |-> IF job[j].batchId = P4Batch(w)
                            THEN [job[j] EXCEPT !.certificateWithQRPath = FALSE]
                            ELSE job[j]]
  /\ p4' = [p4 EXCEPT ![w] = IF p4[w].idx < Len(p4[w].batches)
                             THEN [p4[w] EXCEPT !.pc = "regenVD", !.idx = p4[w].idx + 1]
                             ELSE P4Idle]
  /\ UNCHANGED <<batch, clock, chain, envVars, toolVars, p1Vars, p2Vars, p3, p5, p6>>

\* a rejected call ends the tick: rethrown to the loop before the anchoring
\* block, swallowed inside it
MRU_Error(w) ==
  /\ p4[w].pc \notin {"poll", "stopped"}
  /\ p4' = [p4 EXCEPT ![w] = P4Idle]
  /\ UNCHANGED <<dbVars, envVars, toolVars, p1Vars, p2Vars, p3, p5, p6>>

processMRUCalculation(w) ==
  \/ MRU_Poll(w)
  \/ MRU_WriteBatch(w)
  \/ MRU_Propagate(w)
  \/ MRU_Anchor(w)
  \/ MRU_WriteTx(w)
  \/ MRU_RegenVD(w)
  \/ MRU_ClearCert(w)

startMRUPollingMode(w) ==
  \/ MRU_Error(w)
  \/ processMRUCalculation(w)

\* the RPC endpoint starts accepting submissions and keeps doing so
ChainRecovers ==
  /\ ~chainUp
  /\ chainUp' = TRUE
  /\ UNCHANGED <<dbVars, storageDriver, isRunning, toolVars, p1Vars, p2Vars, p3, p4, p5, p6>>

\* ------------------- P5: startQRCodePollingMode and batchGenerateQRCodes
QRCandidate(j) ==
  /\ job[j].status = "Generated"
  /\ ~job[j].qrCodePath
  /\ job[j].issuerSignature # NullSig
  /\ batch[job[j].batchId].txHash # 0
  /\ batch[job[j].batchId].merkleRootUltimate # NullHash

\* Every result of a query without ORDER BY and with LIMIT n over the rows S.
Limited(S, n) ==
  IF Cardinality(S) <= n THEN {S} ELSE {T \in SUBSET S : Cardinality(T) = n}

QR_Poll ==
  /\ LoopCondition
  /\ p5.pc = "poll"
  /\ LET S == {j \in Jobs : QRCandidate(j)} IN
     /\ S # {}
     /\ \E T \in Limited(S, QRBatchLimit) : p5' = [pc |-> "generate", jobs |-> T]
  /\ UNCHANGED <<dbVars, envVars, toolVars, p1Vars, p2Vars, p3, p4, p6>>

\* generateQRCodeForJob: checks, image file (local) or upload (S3), then
\* job.update({qrCodePath}); a failure is counted and the loop goes on
QR_Generate(j) ==
  /\ p5.pc = "generate"
  /\ j \in p5.jobs
  /\ \E ioError \in BOOLEAN :
       job' = IF ioError \/ job[j].issuerSignature = NullSig
                 \/ batch[job[j].batchId].merkleRoot = NullHash
              THEN job
              ELSE [job EXCEPT ![j].qrCodePath = TRUE]
  /\ p5' = IF p5.jobs = {j} THEN P5Idle ELSE [p5 EXCEPT !.jobs = @ \ {j}]
  /\ UNCHANGED <<batch, clock, chain, envVars, toolVars, p1Vars, p2Vars, p3, p4, p6>>

batchGenerateQRCodes ==
  \/ QR_Poll
  \/ \E j \in Jobs : QR_Generate(j)

\* ---------------- P6: startPDFQRPollingMode and checkAndUpdateBatchStatus
PDFCandidate(j) ==
  /\ job[j].status = "Generated"
  /\ job[j].qrCodePath
  /\ ~job[j].certificateWithQRPath
  /\ job[j].certificatePath

\* next element of `for (const job of jobs)`, or sleep until the next poll
P6Advance == IF p6.jobs = {} THEN P6Idle ELSE [p6 EXCEPT !.pc = "next", !.cur = 0]

PDF_Poll ==
  /\ LoopCondition
  /\ p6.pc = "poll"
  /\ LET S == {j \in Jobs : PDFCandidate(j)} IN
     /\ S # {}
     /\ \E T \in Limited(S, PDFQRQueryLimit) : p6' = [pc |-> "next", jobs |-> T, cur |-> 0]
  /\ UNCHANGED <<dbVars, envVars, toolVars, p1Vars, p2Vars, p3, p4, p5>>

\* batch and template are read, the payload fragment is stored, and the
\* verification bundle is regenerated
PDF_Bundle(j) ==
  /\ p6.pc = "next"
  /\ j \in p6.jobs
  /\ job' = [job EXCEPT ![j] = generateVerificationBundle(j)]
  /\ p6' = [p6 EXCEPT !.pc = "augment", !.jobs = @ \ {j}, !.cur = j]
  /\ UNCHANGED <<batch, clock, chain, envVars, toolVars, p1Vars, p2Vars, p3, p4, p5>>

\* if (storage.getName() === 'local') { ... }
AugmentsWith(driver) == driver = "local"

\* the augmented PDF is written and job.update({certificateWithQRPath}) runs
\* only inside the local-driver branch
PDF_Augment ==
  /\ p6.pc = "augment"
  /\ IF AugmentsWith(storageDriver)
     THEN /\ job' = [job EXCEPT ![p6.cur].certificateWithQRPath = TRUE]
          /\ p6' = [p6 EXCEPT !.pc = "checkBatch"]
     ELSE /\ job' = job
          /\ p6' = P6Advance
  /\ UNCHANGED <<batch, clock, chain, envVars, toolVars, p1Vars, p2Vars, p3, p4, p5>>

CB_FindBatch ==
  /\ p6.pc = "checkBatch"
  /\ LET b == job[p6.cur].batchId IN
     p6' = IF batch[b].status = "Completed" \/ batch[b].txHash = 0
           THEN P6Advance
           ELSE [p6 EXCEPT !.pc = "checkJobs"]
  /\ UNCHANGED <<dbVars, envVars, toolVars, p1Vars, p2Vars, p3, p4, p5>>

CB_FindJobs ==
  /\ p6.pc = "checkJobs"
  /\ LET b == job[p6.cur].batchId IN
     p6' = IF \A j \in JobsOfBatch(b) : job[j].certificateWithQRPath
           THEN [p6 EXCEPT !.pc = "complete"]
           ELSE P6Advance
  /\ UNCHANGED <<dbVars, envVars, toolVars, p1Vars, p2Vars, p3, p4, p5>>

\* batch.update({status: 'Completed'})
CB_Complete ==
  /\ p6.pc = "complete"
  /\ batch' = [batch EXCEPT ![job[p6.cur].batchId].status = "Completed"]
  /\ p6' = P6Advance
  /\ UNCHANGED <<job, clock, chain, envVars, toolVars, p1Vars, p2Vars, p3, p4, p5>>

checkAndUpdateBatchStatus ==
  \/ CB_FindBatch
  \/ CB_FindJobs
  \/ CB_Complete

\* a failure while handling one job is logged and the loop takes the next job
PDF_Error ==
  /\ p6.pc \notin {"poll", "next", "stopped"}
  /\ p6' = P6Advance
  /\ UNCHANGED <<dbVars, envVars, toolVars, p1Vars, p2Vars, p3, p4, p5>>

startPDFQRPollingMode ==
  \/ PDF_Poll
  \/ \E j \in Jobs : PDF_Bundle(j)
  \/ PDF_Augment
  \/ checkAndUpdateBatchStatus
  \/ PDF_Error

\* ------------------------------------------------------ verifyCertificate
\* The result object of one call; errors and warnings are kept as the sets of
\* the messages pushed so far.
VC_Others == <<dbVars, envVars, p1Vars, p2Vars, p3, p4, p5, p6, mk, fp, fee>>

VC_Start ==
  /\ vc.pc \in {"idle", "returned"}
  /\ vc' = [VCIdle EXCEPT !.pc = "extract"]
  /\ UNCHANGED VC_Others

\* step 1: the embedded original; without it the input PDF is used
VC_Extract ==
  /\ vc.pc = "extract"
  /\ \E embedded \in BOOLEAN :
       vc' = IF embedded
             THEN [vc EXCEPT !.pc = "integrity"]
             ELSE [vc EXCEPT !.pc = "payload",
                             !.warnings = @ \cup {"Using input PDF as original"}]
  /\ UNCHANGED VC_Others

\* step 1.5: text, annotation and image comparison give errors; metadata,
\* incremental-update and producer checks, and a failed comparison, warnings
VC_Integrity ==
  /\ vc.pc = "integrity"
  /\ \E es \in SUBSET {"Document content mismatch", "Unauthorized annotations",
                       "Unauthorized images"},
        ws \in SUBSET {"Document metadata mismatch", "Could not verify content integrity"} :
       vc' = [vc EXCEPT !.pc = "payload", !.errors = @ \cup es, !.warnings = @ \cup ws]
  /\ UNCHANGED VC_Others

\* ---- what a verifier is handed: verification data of issued certificates
\* A batch of three auto-signed jobs, finalized, and anchored on its own.
RefBatch == buildBatchMerkleRoot([j \in 1..3 |-> calculateMerkleLeaf(sign(j))])
RefUltimate == calculateUltimateMerkleRoot(<<RefBatch.merkleRoot>>)
IssuerKey == 1
ForeignKey == 2

\* generateVerificationBundle: the bundle (VD) of job j, then altered by tamper
VerificationBundle(j, tamper) ==
  [SI  |-> CASE tamper = "foreignSI" -> ExtSig(9, FALSE)
             [] tamper = "noSI" -> NullSig
             [] OTHER -> sign(j),
   MPI |-> CASE tamper = "emptyMPI" -> <<>>
             [] tamper = "wrongMPI" ->
                  getMerkleProof(RefBatch.tree, calculateMerkleLeaf(sign(2)))
             [] OTHER -> getMerkleProof(RefBatch.tree, calculateMerkleLeaf(sign(j))),
   MRI |-> IF tamper = "noMRI" THEN NullHash ELSE RefBatch.merkleRoot,
   MPU |-> getMerkleProof(RefUltimate.tree, RefBatch.merkleRoot),
   MRU |-> IF tamper = "noMRU" THEN NullHash ELSE RefUltimate.merkleRootUltimate,
   \* expiryDate and invalidationExpiry give the timestamps Ed, Ei of the signed DI
   datesAsSigned |-> tamper # "wrongDates"]

\* generateQRCodePayload: the same data with MPI and MPU as
\* (proof || []).map(p => typeof p === 'string' ? p : p?.data).filter(Boolean);
\* an element with position "none" is a plain hex string
generateQRCodePayload(vd) ==
  LET SiblingHashes(proof) ==
        IF proof = NullProof THEN <<>>
        ELSE [i \in 1..Len(proof) |-> [position |-> "none", data |-> proof[i].data]]
  IN [vd EXCEPT !.MPI = SiblingHashes(@), !.MPU = SiblingHashes(@)]

\* the fields verifyCertificate works on: from the bundle when there is one,
\* otherwise from the QR payload
VCData(doc) ==
  IF doc.source = "qr"
  THEN generateQRCodePayload(VerificationBundle(doc.job, doc.tamper))
  ELSE VerificationBundle(doc.job, doc.tamper)

\* qrPayload is the caller's, or built from the bundle; an absent key in it is
\* filled from the environment; then
\* qrPayload?.issuerPublicKey || verificationBundle?.issuerPublicKey || env
selectIssuerPublicKey(source, keys) ==
  LET own == IF source \in {"qr", "both"} THEN keys.qr ELSE keys.vd
      payloadKey == IF own = 0 THEN keys.env ELSE own
      bundleKey == IF source \in {"vd", "both"} THEN keys.vd ELSE 0
  IN IF payloadKey # 0 THEN payloadKey
     ELSE IF bundleKey # 0 THEN bundleKey ELSE keys.env

verifySignature_anyDocument(intact, signature, publicKey, j) ==
  signature = sign(j) /\ publicKey = IssuerKey

\* crypto.verifySignature: the signature was made by the issuer over the
\* fingerprint H(DI) that the verifier computed, i.e. over these very document
\* bytes, Ed and Ei
verifySignature(intact, signature, publicKey, j) ==
  intact /\ signature = sign(j) /\ publicKey = IssuerKey

\* step 2-3: QR payload and/or verification bundle; none is an error and a
\* return. A bundle whose documentHash differs from the computed one is a
\* warning.
VC_Payload ==
  /\ vc.pc = "payload"
  /\ \/ vc' = [vc EXCEPT !.pc = "returned",
                         !.errors = @ \cup {"Could not extract verification data"}]
     \/ \E source \in {"qr", "vd", "both"}, j \in {1, 3},
           tamper \in {"none", "foreignSI", "noSI", "emptyMPI", "wrongMPI", "noMRI", "noMRU",
                       "wrongDates"},
           intact \in BOOLEAN, qrKey \in {0, IssuerKey, ForeignKey},
           vdKey \in {0, IssuerKey}, envKey \in {0, ForeignKey} :
          /\ source = "vd" => qrKey = 0
          /\ source = "qr" => vdKey = 0
          /\ vc' = [vc EXCEPT
               !.pc = "signature",
               !.doc = [source |-> source, job |-> j, tamper |-> tamper, intact |-> intact],
               !.keys = [qr |-> qrKey, vd |-> vdKey, env |-> envKey],
               !.warnings = @ \cup (IF source # "qr" /\ ~intact
                                    THEN {"Document hash mismatch"} ELSE {})]
  /\ UNCHANGED VC_Others

\* step 6: a missing SI is an error and a return, an invalid one an error,
\* a missing public key a warning
VC_Signature ==
  /\ vc.pc = "signature"
  /\ LET data == VCData(vc.doc)
         issuerPublicKey == selectIssuerPublicKey(vc.doc.source, vc.keys)
     IN vc' = IF data.SI = NullSig
              THEN [vc EXCEPT !.pc = "returned",
                              !.errors = @ \cup {"Issuer signature (SI) not found"}]
              ELSE IF issuerPublicKey = 0
              THEN [vc EXCEPT !.pc = "proofs",
                              !.warnings = @ \cup {"Signature verification skipped"}]
              ELSE IF verifySignature(vc.doc.intact /\ data.datesAsSigned, data.SI,
                                      issuerPublicKey, vc.doc.job)
              THEN [vc EXCEPT !.pc = "proofs", !.keyUsed = issuerPublicKey,
                              !.steps.signatureVerified = TRUE]
              ELSE [vc EXCEPT !.pc = "proofs", !.keyUsed = issuerPublicKey,
                              !.errors = @ \cup {"Issuer signature (SI) verification failed"}]
  /\ UNCHANGED VC_Others

\* steps 7-9: L = H(SI), MPI against MRI, MPU against MRU; every problem with
\* a proof, a throw of verifyMerkleProof included, is a warning only
VC_Proofs ==
  /\ vc.pc = "proofs"
  /\ LET data == VCData(vc.doc)
         calculatedLeaf == calculateMerkleLeaf(data.SI)
         mpiChecked == data.MRI # NullHash /\ ~verifyMerkleProofThrows(data.MPI)
         mpiValid == mpiChecked /\ verifyMerkleProof(calculatedLeaf, data.MPI, data.MRI)
         mpiWarning ==
           IF data.MRI = NullHash THEN {"Intermediate Merkle proof (MPI) or root (MRI) not found"}
           ELSE IF verifyMerkleProofThrows(data.MPI) THEN {"Failed to verify MPI"}
           ELSE IF mpiValid THEN {} ELSE {"Intermediate Merkle proof (MPI) is invalid"}
         mpuRuns == data.MRU # NullHash /\ data.MRI # NullHash
         mpuValid ==
           /\ mpuRuns
           /\ \/ data.MRI = data.MRU
              \/ /\ Len(data.MPU) > 0
                 /\ ~verifyMerkleProofThrows(data.MPU)
                 /\ verifyMerkleProof(data.MRI, data.MPU, data.MRU)
         mpuWarning ==
           IF ~mpuRuns THEN {"Ultimate Merkle proof (MPU) verification skipped"}
           ELSE IF mpuValid THEN {}
           ELSE IF Len(data.MPU) = 0 THEN {"MPU is empty but MRI does not match MRU"}
           ELSE IF verifyMerkleProofThrows(data.MPU) THEN {"Failed to verify MPU"}
           ELSE {"Ultimate Merkle proof (MPU) is invalid"}
     IN vc' = [vc EXCEPT !.pc = "blockchain",
                         !.steps.intermediateProofValid = mpiValid,
                         !.steps.ultimateProofValid = mpuValid,
                         !.warnings = @ \cup mpiWarning \cup mpuWarning]
  /\ UNCHANGED VC_Others

\* blockchainService.verifyTransaction(txHash, expectedMRU): receipt is what
\* the RPC returns for txHash, eventRoot the root of the MerkleRootSubmitted
\* event of the anchor contract in it (NullHash: no such event). Both roots
\* are brought to the same 0x-prefixed lower-case form before the comparison.
verifyTransaction(receipt, eventRoot, expectedMRU) ==
  IF receipt # "success"
  THEN [verified |-> FALSE, mruMatches |-> "undefined"]
  ELSE LET mruMatches == IF expectedMRU # NullHash /\ eventRoot # NullHash
                         THEN expectedMRU = eventRoot ELSE TRUE
       IN [verified |-> ~(expectedMRU # NullHash /\ ~mruMatches),
           mruMatches |-> IF expectedMRU = NullHash THEN "null"
                          ELSE IF mruMatches THEN "true" ELSE "false"]

\* step 10, run when the data carries txHash and network: a result that is
\* verified with mruMatches === false is an error, a result that is not
\* verified is a warning
VC_Blockchain ==
  /\ vc.pc = "blockchain"
  /\ \/ vc' = [vc EXCEPT !.pc = "final"]
     \/ \E receipt \in {"none", "failed", "success"},
           eventRoot \in {NullHash, RefUltimate.merkleRootUltimate, keccak256(<<99>>)} :
          LET expectedMRU == VCData(vc.doc).MRU
              verificationResult == verifyTransaction(receipt, eventRoot, expectedMRU)
              tx == [ran |-> TRUE, receipt |-> receipt, eventRoot |-> eventRoot,
                     verified |-> verificationResult.verified]
          IN vc' = IF verificationResult.verified
                   THEN IF verificationResult.mruMatches = "false"
                        THEN [vc EXCEPT !.pc = "final", !.valid = FALSE, !.tx = tx,
                                 !.errors = @ \cup {"MRU in blockchain transaction does not match"}]
                        ELSE [vc EXCEPT !.pc = "final", !.tx = tx]
                   ELSE [vc EXCEPT !.pc = "final", !.tx = tx,
                                   !.warnings = @ \cup {"Blockchain verification failed"}]
  /\ UNCHANGED VC_Others

validWhen_always(errors) == TRUE

\* if (result.errors.length === 0) result.valid = true
validWhen(errors) == Cardinality(errors) = 0

VC_Final ==
  /\ vc.pc = "final"
  /\ vc' = [vc EXCEPT !.pc = "returned",
                      !.valid = IF validWhen(vc.errors) THEN TRUE ELSE @]
  /\ UNCHANGED VC_Others

\* the outer catch: an exception at any step pushes an error and returns
VC_Catch ==
  /\ vc.pc \notin {"idle", "returned"}
  /\ vc' = [vc EXCEPT !.pc = "returned", !.errors = @ \cup {"Verification error"}]
  /\ UNCHANGED VC_Others

verifyCertificate ==
  \/ VC_Start
  \/ VC_Extract
  \/ VC_Integrity
  \/ VC_Payload
  \/ VC_Signature
  \/ VC_Proofs
  \/ VC_Blockchain
  \/ VC_Final
  \/ VC_Catch

\* ------------------------------------------------- merkleService, directly
\* Leaves are 32-byte values; leaf n stands for the n-th of them, leaf 0 for
\* one that is in no list.
Leaf(n) == keccak256(<<n>>)
Range(q) == {q[i] : i \in 1..Len(q)}
\* tree = buildMerkleTree(leaves); root = getMerkleRoot(tree)
MK_Build ==
  /\ mk.pc = "idle"
  /\ mk' = [mk EXCEPT !.pc = "built",
                      !.root = getMerkleRoot(buildMerkleTree(mk.leaves))]
  /\ UNCHANGED <<dbVars, envVars, p1Vars, p2Vars, p3, p4, p5, p6, vc, fp, fee>>

\* proof = getMerkleProof(tree, x) for a leaf x of the list
MK_Prove ==
  /\ mk.pc = "built"
  /\ \E x \in Range(mk.leaves) :
       mk' = [mk EXCEPT !.pc = "proved", !.leaf = x,
                        !.proof = getMerkleProof(buildMerkleTree(mk.leaves), x)]
  /\ UNCHANGED <<dbVars, envVars, p1Vars, p2Vars, p3, p4, p5, p6, vc, fp, fee>>

\* verifyMerkleProof(y, proof, root) for the proved leaf or any other value
MK_Verify ==
  /\ mk.pc = "proved"
  /\ \E y \in {Leaf(n) : n \in 1..LeafKinds} \cup {Leaf(0), mk.root} :
       mk' = [mk EXCEPT !.pc = "verified", !.y = y,
                        !.ok = verifyMerkleProof(y, mk.proof, mk.root)]
  /\ UNCHANGED <<dbVars, envVars, p1Vars, p2Vars, p3, p4, p5, p6, vc, fp, fee>>

\* ------------------------------------------- cryptoService: the fingerprint
\* Bytes are 0..255, hex text is a sequence of digits 0..15, and an integer
\* is a sign with a 64-bit magnitude written as eight bytes, most significant
\* first, so that values beyond the range of a double can be told apart.
BytesToBits(bs) ==
  [i \in 1..(8 * Len(bs)) |->
     (bs[((i - 1) \div 8) + 1] \div (2 ^ (7 - ((i - 1) % 8)))) % 2]
BitsToBytes(bits) ==
  [k \in 1..(Len(bits) \div 8) |->
     LET b == SubSeq(bits, 8 * k - 7, 8 * k)
     IN 128 * b[1] + 64 * b[2] + 32 * b[3] + 16 * b[4]
        + 8 * b[5] + 4 * b[6] + 2 * b[7] + b[8]]
ZeroBits(n) == [i \in 1..n |-> 0]

RECURSIVE Increment(_)
Increment(bits) ==
  IF Len(bits) = 0 THEN <<>>
  ELSE IF bits[Len(bits)] = 0 THEN SubSeq(bits, 1, Len(bits) - 1) \o <<1>>
  ELSE Increment(SubSeq(bits, 1, Len(bits) - 1)) \o <<0>>

\* the magnitude of a negative 64-bit pattern and the pattern of a negative
\* magnitude: all bits inverted, plus one
TwosComplement(bits) == Increment([i \in 1..Len(bits) |-> 1 - bits[i]])

BitLength(bits) ==
  LET ones == {i \in 1..Len(bits) : bits[i] = 1}
  IN IF ones = {} THEN 0
     ELSE Len(bits) + 1 - (CHOOSE i \in ones : \A k \in ones : i <= k)

BigInt(neg, bytes) == [null |-> FALSE, neg |-> neg, mag |-> bytes]
Zero == BigInt(FALSE, <<0, 0, 0, 0, 0, 0, 0, 0>>)

\* Number(v): a double holds 53 significant bits; what is below them is
\* rounded away, ties to even
Number(v) ==
  LET bits == BytesToBits(v.mag)
      drop == BitLength(bits) - DoubleMantissaBits
      kept == SubSeq(bits, 1, 64 - drop)
      rest == SubSeq(bits, 64 - drop + 1, 64)
      up   == /\ rest[1] = 1
              /\ \/ SubSeq(rest, 2, drop) # ZeroBits(drop - 1)
                 \/ kept[Len(kept)] = 1
      rounded == (IF up THEN Increment(kept) ELSE kept) \o ZeroBits(drop)
  IN IF drop <= 0 THEN v ELSE [v EXCEPT !.mag = BitsToBytes(rounded)]

\* const toTimestamp = (val) => { if (!val) return 0; ...; return Number(val) || 0 }
toTimestamp(val) ==
  IF val.null \/ val.mag = Zero.mag THEN Zero ELSE Number(val)

\* buf.writeBigInt64BE(BigInt(t)): two's complement in eight bytes, a
\* RangeError outside -2^63 .. 2^63 - 1
writeBigInt64BEThrows(t) ==
  LET bits == BytesToBits(t.mag)
  IN bits[1] = 1 /\ ~(t.neg /\ SubSeq(bits, 2, 64) = ZeroBits(63))

writeBigInt64BE_magnitudeOnly(t) == t.mag

writeBigInt64BE(t) ==
  IF t.neg THEN BitsToBytes(TwosComplement(BytesToBits(t.mag))) ELSE t.mag

\* Number(buffer.readBigInt64BE(offset))
readBigInt64BE(bytes) ==
  LET bits == BytesToBits(bytes)
  IN IF bits[1] = 1 THEN BigInt(TRUE, BitsToBytes(TwosComplement(bits)))
     ELSE BigInt(FALSE, bytes)

\* Buffer.from(text, 'hex') and buffer.toString('hex')
fromHex(digits) ==
  [k \in 1..(Len(digits) \div 2) |-> 16 * digits[2 * k - 1] + digits[2 * k]]
toHex(bytes) ==
  [i \in 1..(2 * Len(bytes)) |->
     IF i % 2 = 1 THEN bytes[(i + 1) \div 2] \div 16 ELSE bytes[i \div 2] % 16]

\* DI = H(d) + Ed + Ei
calculateDocumentFingerprint(documentHash, expiryDate, invalidationExpiry) ==
  fromHex(documentHash) \o writeBigInt64BE(toTimestamp(expiryDate))
                        \o writeBigInt64BE(toTimestamp(invalidationExpiry))

extractDataFromFingerprint(fingerprintHex) ==
  LET buffer == fromHex(fingerprintHex)
  IN [documentHash |-> toHex(SubSeq(buffer, 1, 32)),
      edTimestamp |-> Number(readBigInt64BE(SubSeq(buffer, 33, 40))),
      eiTimestamp |-> Number(readBigInt64BE(SubSeq(buffer, 41, 48)))]

FP_Encode ==
  /\ fp.pc = "idle"
  /\ fp' = IF \/ writeBigInt64BEThrows(toTimestamp(fp.Ed))
              \/ writeBigInt64BEThrows(toTimestamp(fp.Ei))
           THEN [fp EXCEPT !.pc = "threw"]
           ELSE [fp EXCEPT !.pc = "encoded",
                   !.fingerprint = calculateDocumentFingerprint(fp.documentHash, fp.Ed, fp.Ei)]
  /\ UNCHANGED <<dbVars, envVars, p1Vars, p2Vars, p3, p4, p5, p6, vc, mk, fee>>

FP_Decode ==
  /\ fp.pc = "encoded"
  /\ fp' = [fp EXCEPT !.pc = "decoded",
                      !.out = extractDataFromFingerprint(toHex(fp.fingerprint))]
  /\ UNCHANGED <<dbVars, envVars, p1Vars, p2Vars, p3, p4, p5, p6, vc, mk, fee>>

\* ------------------------------------------------------------ specifications
\* P1 alone: two calls inside one process and one from a second process.
InitP1 ==
  /\ InitDB(P1Jobs, 1)
  /\ chainUp = TRUE
  /\ storageDriver = "local"
  /\ InitProcs

NextP1 == \E c \in P1Callers : processJobById(c)

SpecP1 == InitP1 /\ [][NextP1]_vars

\* One generator, two signature submitters and two MRI workers.
InitIssue ==
  /\ InitDB(IssueJobs, IssueBatches)
  /\ chainUp = TRUE
  /\ storageDriver = "local"
  /\ InitProcs

NextIssue ==
  \/ startPollingMode("c1")
  \/ \E s \in P2Callers : processSignatures(s)
  \/ \E w \in P3Workers : startMRIPollingMode(w)

SpecIssue == InitIssue /\ [][NextIssue]_vars

\* startWorker: one loop per stage in one process, with signatures arriving
\* from outside.
Init ==
  /\ InitDB(PipeJobs, PipeBatches)
  /\ chainUp \in BOOLEAN
  /\ storageDriver \in {"local", "s3"}
  /\ InitProcs

Next ==
  \/ startPollingMode("c1")
  \/ processSignatures("s1")
  \/ startMRIPollingMode("m1")
  \/ startMRUPollingMode("u1")
  \/ batchGenerateQRCodes
  \/ startPDFQRPollingMode
  \/ ChainRecovers

Spec == Init /\ [][Next]_vars

\* P1 and two signature submitters on one batch.
InitSign ==
  /\ InitDB(SignJobs, IssueBatches)
  /\ chainUp = TRUE
  /\ storageDriver = "local"
  /\ InitProcs

NextSign ==
  \/ startPollingMode("c1")
  \/ \E s \in P2Callers : processSignatures(s)

SpecSign == InitSign /\ [][NextSign]_vars

\* P3 and P4 loops over batches of one signed job each; two batches may carry
\* the same signature and so the same MRI.
InitAnchor ==
  /\ \E same \in BOOLEAN :
       job = [j \in 1..AnchorBatches |->
                SignedJob(j, IF j = 1 \/ (j = 2 /\ same) THEN ExtSig(7, TRUE) ELSE sign(j))]
  /\ batch = [b \in 1..AnchorBatches |-> NewBatch(FALSE)]
  /\ clock = 0
  /\ chain = <<>>
  /\ chainUp \in BOOLEAN
  /\ storageDriver = "local"
  /\ InitProcs

NextAnchor ==
  \/ startMRIPollingMode("m1")
  \/ startMRUPollingMode("u1")
  \/ ChainRecovers

SpecAnchor == InitAnchor /\ [][NextAnchor]_vars

\* One signed batch taken through P3..P6 when no database, storage or RPC call
\* is rejected other than chain submissions while the endpoint is down. Every
\* loop keeps being scheduled, QR generation does not fail forever, and the
\* endpoint comes up and stays up.
InitLive ==
  /\ job = [j \in 1..LiveJobs |-> SignedJob(1, sign(j))]
  /\ batch = [b \in {1} |-> NewBatch(FALSE)]
  /\ clock = 0
  /\ chain = <<>>
  /\ chainUp \in BOOLEAN
  /\ storageDriver \in {"local", "s3"}
  /\ InitProcs

MRITick ==
  \/ MRI_Poll("m1")
  \/ MRI_CountPending("m1")
  \/ MRI_CountGenerated("m1")
  \/ MRI_MarkSigned("m1")
  \/ finalizeBatch("m1")

PDFQRTick ==
  \/ PDF_Poll
  \/ \E j \in Jobs : PDF_Bundle(j)
  \/ PDF_Augment
  \/ checkAndUpdateBatchStatus

NextLive ==
  \/ MRITick
  \/ processMRUCalculation("u1")
  \/ batchGenerateQRCodes
  \/ PDFQRTick
  \/ ChainRecovers

FairLive ==
  /\ WF_vars(MRITick)
  /\ WF_vars(processMRUCalculation("u1"))
  /\ WF_vars(ChainRecovers)
  /\ WF_vars(QR_Poll)
  /\ \A j \in 1..LiveJobs : SF_vars(QR_Generate(j) /\ job'[j].qrCodePath)
  /\ WF_vars(PDFQRTick)

LiveSpec == InitLive /\ [][NextLive]_vars /\ FairLive

\* ------------------------------------ anchorMRUToBlockchain: fee overrides
\* Amounts are in gwei. getFeeOverrides returns {} (both fields Absent) when
\* no minimum applies, when a lookup throws, or when nothing can be computed.
Larger(a, b) == IF a < b THEN b ELSE a

getFeeOverrides_keepSuggestedTip(chainId, minPriorityFromEnv, minMaxFeeFromEnv, lookupFails, suggestedPriority, suggestedMaxFee, baseFee) ==
  LET defaultMinPriority == IF chainId = AmoyChainId THEN DefaultMinPriorityGwei ELSE Absent
      minPriority == IF minPriorityFromEnv # Absent THEN minPriorityFromEnv
                     ELSE defaultMinPriority
      priority == IF suggestedPriority # Absent THEN suggestedPriority ELSE minPriority
      computedFallback == IF priority # Absent THEN 2 * priority ELSE Absent
      maxFee == Larger(Larger(suggestedMaxFee, computedFallback), minMaxFeeFromEnv)
  IN IF lookupFails \/ priority = Absent \/ maxFee = Absent
     THEN FeeOverrides(Absent, Absent)
     ELSE FeeOverrides(priority, maxFee)

getFeeOverrides(chainId, minPriorityFromEnv, minMaxFeeFromEnv, lookupFails, suggestedPriority, suggestedMaxFee, baseFee) ==
  LET defaultMinPriority == IF chainId = AmoyChainId THEN DefaultMinPriorityGwei ELSE Absent
      minPriority == IF minPriorityFromEnv # Absent THEN minPriorityFromEnv
                     ELSE defaultMinPriority
      priority == IF minPriority # Absent /\ suggestedPriority # Absent
                  THEN Larger(suggestedPriority, minPriority)
                  ELSE IF minPriority # Absent THEN minPriority ELSE suggestedPriority
      computedFromBase == IF baseFee # Absent /\ priority # Absent
                          THEN 2 * baseFee + priority ELSE Absent
      computedFallback == IF priority # Absent THEN 2 * priority ELSE Absent
      first == IF suggestedMaxFee # Absent THEN suggestedMaxFee
               ELSE IF computedFromBase # Absent THEN computedFromBase
               ELSE computedFallback
      maxFee == Larger(Larger(Larger(first, computedFromBase), computedFallback),
                       minMaxFeeFromEnv)
  IN IF minPriority = Absent /\ minMaxFeeFromEnv = Absent
     THEN FeeOverrides(Absent, Absent)
     ELSE IF lookupFails \/ priority = Absent \/ maxFee = Absent
     THEN FeeOverrides(Absent, Absent)
     ELSE FeeOverrides(priority, maxFee)

\* contract.putRootLegacy(timeWindow, mruBytes32, feeOverrides): with empty
\* overrides the fees of the transaction are whatever ethers takes from the
\* provider at submission
FEE_Submit ==
  /\ fee.pc = "ready"
  /\ LET o == getFeeOverrides(fee.chainId, fee.minPriorityFromEnv, fee.minMaxFeeFromEnv,
                              fee.lookupFails, fee.suggestedPriority, fee.suggestedMaxFee,
                              fee.baseFee)
     IN IF o.maxPriorityFeePerGas # Absent
        THEN fee' = [fee EXCEPT !.pc = "sent", !.tx = o]
        ELSE \E tip \in GweiSamples, cap \in GweiSamples :
               fee' = [fee EXCEPT !.pc = "sent", !.tx = FeeOverrides(tip, cap)]
  /\ UNCHANGED <<dbVars, envVars, p1Vars, p2Vars, p3, p4, p5, p6, vc, mk, fp>>

\* ------------------------------------------------- the Lambda handler
\* exports.handler: for (const record of event.Records) { try { parseMessage;
\* await processJobById } catch { batchItemFailures.push(messageId) } }.
\* A record is the jobId its body carries, or 0 when parseMessage throws.
\* lam.failed remembers the records whose processing failed: the unparsable
\* ones and those whose call of processJobById reached its catch block.
LH_Advance(listed, failed) ==
  [lam EXCEPT !.pc = IF lam.idx < Len(lam.Records) THEN "record" ELSE "done",
              !.idx = @ + 1,
              !.batchItemFailures = IF listed THEN @ \cup {lam.idx} ELSE @,
              !.failed = IF failed THEN @ \cup {lam.idx} ELSE @]

LH_Record ==
  /\ lam.pc = "record"
  /\ IF lam.Records[lam.idx] = 0
     THEN /\ lam' = LH_Advance(TRUE, TRUE)
          /\ UNCHANGED <<dbVars, envVars, toolVars, p1, processingJobs, bodyRuns, zeroRows,
                         p2Vars, p3, p4, p5, p6>>
     ELSE /\ PJ_Enter("c3", lam.Records[lam.idx])
          /\ lam' = [lam EXCEPT !.pc = "await"]
  /\ UNCHANGED fetched

LH_Await ==
  /\ lam.pc = "await"
  /\ \/ /\ PJ_Mark("c3") \/ PJ_Body("c3") \/ PJ_Write("c3")
        /\ lam' = IF p1'["c3"].pc = "idle" THEN LH_Advance(FALSE, FALSE)
                  ELSE lam
     \/ /\ PJ_Catch("c3", FALSE)
        /\ lam' = LH_Advance(FALSE, TRUE)
     \/ /\ PJ_Catch("c3", TRUE)
        /\ lam' = LH_Advance(TRUE, TRUE)

handler ==
  \/ LH_Record
  \/ LH_Await

\* stopWorker: isRunning = false; the loops see it at their next test
stopWorker ==
  /\ isRunning
  /\ isRunning' = FALSE
  /\ UNCHANGED <<dbVars, chainUp, storageDriver, toolVars, p1Vars, p2Vars, p3, p4, p5, p6>>

\* while (isRunning) is false: the loop function returns
LoopExit ==
  /\ ~LoopCondition
  /\ \/ /\ p1["c1"].pc = "idle" /\ fetched = {}
        /\ p1' = [p1 EXCEPT !["c1"].pc = "stopped"]
        /\ UNCHANGED <<p3, p4, p5, p6>>
     \/ /\ p3["m1"].pc = "poll"
        /\ p3' = [p3 EXCEPT !["m1"].pc = "stopped"]
        /\ UNCHANGED <<p1, p4, p5, p6>>
     \/ /\ p4["u1"].pc = "poll"
        /\ p4' = [p4 EXCEPT !["u1"].pc = "stopped"]
        /\ UNCHANGED <<p1, p3, p5, p6>>
     \/ /\ p5.pc = "poll"
        /\ p5' = [p5 EXCEPT !.pc = "stopped"]
        /\ UNCHANGED <<p1, p3, p4, p6>>
     \/ /\ p6.pc = "poll"
        /\ p6' = [p6 EXCEPT !.pc = "stopped"]
        /\ UNCHANGED <<p1, p3, p4, p5>>
  /\ UNCHANGED <<dbVars, envVars, toolVars, processingJobs, bodyRuns, zeroRows, fetched, lam,
                 p2Vars>>

\* startWorker followed at any moment by stopWorker: the five loops of one
\* process. Node runs a continuation whenever one is ready.
InitWorker ==
  /\ InitDB(WorkerJobs, 1)
  /\ chainUp \in BOOLEAN
  /\ storageDriver = "local"
  /\ InitProcs

WorkerStep ==
  \/ startPollingMode("c1")
  \/ startMRIPollingMode("m1")
  \/ startMRUPollingMode("u1")
  \/ batchGenerateQRCodes
  \/ startPDFQRPollingMode
  \/ LoopExit

NextWorker ==
  \/ WorkerStep
  \/ processSignatures("s1")
  \/ stopWorker

FairWorker == WF_vars(WorkerStep)

WorkerSpec == InitWorker /\ [][NextWorker]_vars /\ FairWorker

\* One invocation of the Lambda handler on every batch of up to MaxRecords
\* SQS records, while another process may be working on the same jobs.
InitLambda ==
  /\ InitDB(LambdaJobs, 1)
  /\ chainUp = TRUE
  /\ storageDriver = "local"
  /\ InitWorkers
  /\ vc = VCIdle
  /\ mk = MKIdle
  /\ fp = FPIdle
  /\ fee = FeeIdle
  /\ \E n \in 1..MaxRecords :
       \E Records \in [1..n -> 0..LambdaJobs] :
         lam = [LamIdle EXCEPT !.pc = "record", !.Records = Records, !.idx = 1]

NextLambda ==
  \/ handler
  \/ processJobById("c1")

SpecLambda == InitLambda /\ [][NextLambda]_vars

\* The MRI loop alone over MRIBatches batches of one job each: the last one
\* is signed, the others wait for their signatures (the query has no ORDER
\* BY, so which one is signed makes no difference). No call is rejected, and
\* the loop keeps being scheduled.
InitMRI ==
  /\ job = [j \in 1..MRIBatches |->
              IF j = MRIBatches THEN SignedJob(j, sign(j))
              ELSE [NewJob(j) EXCEPT !.status = "PendingSigning", !.certificatePath = TRUE]]
  /\ batch = [b \in 1..MRIBatches |-> NewBatch(FALSE)]
  /\ clock = 0
  /\ chain = <<>>
  /\ chainUp = TRUE
  /\ storageDriver = "local"
  /\ InitProcs

MRISpec == InitMRI /\ [][MRITick]_vars /\ WF_vars(MRITick)

\* The fee computation on every combination of environment minimums and
\* provider answers.
InitFee ==
  /\ job = [j \in 1..1 |-> NewJob(1)]
  /\ batch = [b \in 1..1 |-> NewBatch(TRUE)]
  /\ clock = 0
  /\ chain = <<>>
  /\ chainUp = TRUE
  /\ storageDriver = "local"
  /\ InitWorkers
  /\ lam = LamIdle
  /\ vc = VCIdle
  /\ mk = MKIdle
  /\ fp = FPIdle
  /\ \E chainId \in {AmoyChainId, AmoyChainId + 1},
        minPriorityFromEnv \in {Absent} \cup GweiSamples,
        minMaxFeeFromEnv \in {Absent} \cup GweiSamples,
        lookupFails \in BOOLEAN,
        suggestedPriority \in {Absent, 0} \cup GweiSamples,
        suggestedMaxFee \in {Absent, 0} \cup GweiSamples,
        baseFee \in {Absent, 0} \cup GweiSamples :
       fee = [FeeIdle EXCEPT !.pc = "ready", !.chainId = chainId,
                !.minPriorityFromEnv = minPriorityFromEnv,
                !.minMaxFeeFromEnv = minMaxFeeFromEnv, !.lookupFails = lookupFails,
                !.suggestedPriority = suggestedPriority,
                !.suggestedMaxFee = suggestedMaxFee, !.baseFee = baseFee]

SpecFee == InitFee /\ [][FEE_Submit]_vars

\* The MRI loop and the MRU loops of two worker processes over the batches
\* of InitAnchor.
NextAnchorPair ==
  \/ startMRIPollingMode("m1")
  \/ \E w \in P4Workers : startMRUPollingMode(w)

SpecAnchorPair == InitAnchor /\ [][NextAnchorPair]_vars

\* Every writer of a job's status: processJobById called from three places in
\* two processes, and two signature submitters.
InitStatus ==
  /\ InitDB(StatusJobs, 1)
  /\ chainUp = TRUE
  /\ storageDriver = "local"
  /\ InitProcs

NextStatus ==
  \/ \E c \in P1Callers : processJobById(c)
  \/ \E s \in P2Callers : processSignatures(s)

SpecStatus == InitStatus /\ [][NextStatus]_vars

\* The verifier, called again and again on arbitrary documents.
InitVerify ==
  /\ InitDB(P1Jobs, IssueBatches)
  /\ chainUp = TRUE
  /\ storageDriver = "local"
  /\ InitProcs

NextVerify == verifyCertificate

SpecVerify == InitVerify /\ [][NextVerify]_vars

\* The Merkle service on every list of up to MaxLeaves leaves.
InitMerkle ==
  /\ job = [j \in 1..1 |-> NewJob(1)]
  /\ batch = [b \in 1..1 |-> NewBatch(TRUE)]
  /\ clock = 0
  /\ chain = <<>>
  /\ chainUp = TRUE
  /\ storageDriver = "local"
  /\ InitWorkers
  /\ lam = LamIdle
  /\ fee = FeeIdle
  /\ vc = VCIdle
  /\ fp = FPIdle
  /\ \E n \in 1..MaxLeaves :
       \E leaves \in [1..n -> {Leaf(k) : k \in 1..LeafKinds}] :
         mk = [MKIdle EXCEPT !.leaves = leaves]

NextMerkle == MK_Build \/ MK_Prove \/ MK_Verify

SpecMerkle == InitMerkle /\ [][NextMerkle]_vars

\* The fingerprint codec on sample hashes and on timestamps at the edges of
\* the ranges involved: 0, 1, -1, a present-day date, 2^31, 2^53, 2^53 + 1,
\* -(2^53 + 1), 2^63 - 1, -2^63, and no timestamp at all.
InitFingerprint ==
  /\ job = [j \in 1..1 |-> NewJob(1)]
  /\ batch = [b \in 1..1 |-> NewBatch(TRUE)]
  /\ clock = 0
  /\ chain = <<>>
  /\ chainUp = TRUE
  /\ storageDriver = "local"
  /\ InitWorkers
  /\ lam = LamIdle
  /\ fee = FeeIdle
  /\ vc = VCIdle
  /\ mk = MKIdle
  /\ LET HashSamples == {[i \in 1..64 |-> (i * k) % 16] : k \in 1..HashKinds}
         TimestampSamples ==
           {[null |-> TRUE, neg |-> FALSE, mag |-> Zero.mag], Zero,
            BigInt(FALSE, <<0, 0, 0, 0, 0, 0, 0, 1>>),
            BigInt(TRUE, <<0, 0, 0, 0, 0, 0, 0, 1>>),
            BigInt(FALSE, <<0, 0, 0, 0, 101, 83, 241, 0>>),
            BigInt(FALSE, <<0, 0, 0, 0, 128, 0, 0, 0>>),
            BigInt(FALSE, <<0, 32, 0, 0, 0, 0, 0, 0>>),
            BigInt(FALSE, <<0, 32, 0, 0, 0, 0, 0, 1>>),
            BigInt(TRUE, <<0, 32, 0, 0, 0, 0, 0, 1>>),
            BigInt(FALSE, <<127, 255, 255, 255, 255, 255, 255, 255>>),
            BigInt(TRUE, <<128, 0, 0, 0, 0, 0, 0, 0>>)}
     IN \E h \in HashSamples, Ed \in TimestampSamples, Ei \in TimestampSamples :
          fp = [FPIdle EXCEPT !.documentHash = h, !.Ed = Ed, !.Ei = Ei]

NextFingerprint == FP_Encode \/ FP_Decode

SpecFingerprint == InitFingerprint /\ [][NextFingerprint]_vars

\* ------------------------------------------------------------- properties
\* C1 (SpecP1): for every job the processing body of processJobById is entered
\* at most once in total and by at most one invocation at a time, and an
\* invocation whose Pending->Processing update finds the job no longer Pending
\* ends without processing and without writing to any job.
C1_NoDoubleProcessing ==
  /\ [](\A j \in 1..P1Jobs :
          /\ bodyRuns[j] <= 1
          /\ Cardinality({c \in P1Callers :
                 p1[c].jobId = j /\ p1[c].pc \in {"body", "write", "fail"}}) <= 1)
  /\ [][\A c \in P1Callers :
          (p1[c].pc = "mark" /\ job[p1[c].jobId].status # "Pending" /\ p1'[c] # p1[c])
          => (p1'[c] = P1Idle /\ job' = job /\ bodyRuns' = bodyRuns)]_vars

\* one invocation has processed the job to its end while another was turned
\* away with zero rows changed
C1_LoserTurnedAway ==
  \E j \in Jobs :
    /\ bodyRuns[j] = 1
    /\ j \in zeroRows
    /\ job[j].status \in {"PendingSigning", "Generated", "Failed"}

\* C2 (Spec): whenever a batch has its MRI, every Generated job of the batch
\* carries an MPI that verifies its leaf against that MRI.
C2_LeafProofVerifies ==
  \A b \in Batches : \A j \in JobsOfBatch(b) :
    (batch[b].merkleRoot # NullHash /\ job[j].status = "Generated")
    => verifyMerkleProof(job[j].merkleLeaf, job[j].merkleProofIntermediate,
                         batch[b].merkleRoot)

\* C3 (SpecAnchor): whenever a batch has its MRU, its MPU verifies its MRI
\* against that MRU, however many batches the P4 run combined.
C3_BatchProofVerifies ==
  \A b \in Batches :
    batch[b].merkleRootUltimate # NullHash
    => verifyMerkleProof(batch[b].merkleRoot, batch[b].merkleProofUltimate,
                         batch[b].merkleRootUltimate)

\* one P4 run has combined two batches: both carry the same MRU, each with a
\* non-empty MPU
C3_CombinedRun ==
  \E b1 \in Batches, b2 \in Batches :
    /\ b1 # b2
    /\ batch[b1].merkleRootUltimate # NullHash
    /\ batch[b1].merkleRootUltimate = batch[b2].merkleRootUltimate
    /\ batch[b1].merkleProofUltimate # NullProof
    /\ Len(batch[b1].merkleProofUltimate) > 0

\* C4 (SpecIssue): a batch's MRI, once written, is never changed by any step.
C4_MRIImmutable ==
  [][\A b \in 1..IssueBatches :
       batch[b].merkleRoot # NullHash => batch'[b].merkleRoot = batch[b].merkleRoot]_vars

\* C5 (Spec): a Completed batch has a txHash and every one of its jobs has
\* certificateWithQRPath.
C5_CompletedMeansAugmented ==
  \A b \in Batches :
    batch[b].status = "Completed"
    => /\ batch[b].txHash # 0
       /\ \A j \in JobsOfBatch(b) : job[j].certificateWithQRPath

\* C6 (SpecSign): every Generated job has a signature and a leaf, and the leaf
\* is the keccak256 hash of the signature bytes.
C6_LeafIsHashOfSignature ==
  \A j \in Jobs :
    job[j].status = "Generated"
    => /\ job[j].issuerSignature # NullSig
       /\ job[j].merkleLeaf # NullHash
       /\ job[j].merkleLeaf = keccak256(job[j].issuerSignature.bytes)

\* one job was auto-signed by P1, another got a 0x-prefixed signature through
\* P2 while a second submission for it is still in flight
C6_BothRoutes ==
  \E j \in Jobs, k \in Jobs, s \in P2Callers :
    /\ job[j].status = "Generated" /\ job[j].issuerSignature = sign(j)
    /\ job[k].status = "Generated" /\ job[k].issuerSignature = ExtSig(7, TRUE)
    /\ p2[s].pc = "update" /\ p2[s].jobId = k

\* C7 (LiveSpec): a batch that has its MRU but no txHash while the chain
\* accepts submissions eventually gets a txHash.
C7_AnchoringRetried ==
  (batch[1].merkleRootUltimate # NullHash /\ batch[1].txHash = 0 /\ chainUp)
  ~> (batch[1].txHash # 0)

\* C8 (SpecIssue): no step changes the status, signature or leaf of a job that
\* is Generated or Failed, i.e. a writer that expected PendingSigning or
\* Processing never overwrites a newer state.
C8_WritesGuardedByStatus ==
  [][\A j \in 1..IssueJobs :
       job[j].status \in {"Generated", "Failed"}
       => /\ job'[j].status = job[j].status
          /\ job'[j].issuerSignature = job[j].issuerSignature
          /\ job'[j].merkleLeaf = job[j].merkleLeaf]_vars

\* C9 (LiveSpec): once the batch, all of whose jobs are Generated, is anchored,
\* eventually every job has qrCodePath and certificateWithQRPath and the batch
\* is Completed, with either storage driver.
C9_EventualCompletion ==
  (batch[1].merkleRootUltimate # NullHash /\ batch[1].txHash # 0)
  ~> (/\ batch[1].status = "Completed"
      /\ \A j \in 1..LiveJobs : job[j].qrCodePath /\ job[j].certificateWithQRPath)

\* C10 (SpecVerify): whenever verifyCertificate has returned, result.valid is
\* true exactly if result.errors is empty.
C10_ValidIffNoErrors ==
  vc.pc = "returned" => (vc.valid <=> vc.errors = {})

\* a call has run to its end and returned valid although warnings were raised
C10_ValidWithWarnings ==
  vc.pc = "returned" /\ vc.valid /\ vc.warnings # {}

\* C11 (SpecVerify): when the verification data carries txHash and network and
\* an expected MRU, and the anchoring transaction cannot be verified or its
\* MerkleRootSubmitted event records another root, verifyCertificate returns
\* valid = false with an error.
C11_OnChainMismatchRejects ==
  (/\ vc.pc = "returned"
   /\ vc.tx.ran
   /\ VCData(vc.doc).MRU # NullHash
   /\ \/ vc.tx.receipt # "success"
      \/ vc.tx.eventRoot \notin {NullHash, VCData(vc.doc).MRU})
  => (~vc.valid /\ vc.errors # {})

\* C12 (SpecVerify): with a non-null expected MRU, verifyTransaction reports
\* verified only for a successful receipt holding a MerkleRootSubmitted event
\* whose root equals the expected MRU.
C12_VerifiedNeedsMatchingEvent ==
  (vc.tx.ran /\ VCData(vc.doc).MRU # NullHash /\ vc.tx.verified)
  => (vc.tx.receipt = "success" /\ vc.tx.eventRoot = VCData(vc.doc).MRU)

\* C13 (SpecVerify): verifyCertificate returns valid = true only if the
\* intermediate proof was checked and holds: MRI is present and
\* verifyMerkleProof(keccak256(SI), MPI, MRI) is true.
C13_ValidNeedsIntermediateProof ==
  (vc.pc = "returned" /\ vc.valid)
  => LET data == VCData(vc.doc)
     IN /\ vc.steps.intermediateProofValid
        /\ data.MRI # NullHash
        /\ verifyMerkleProof(calculateMerkleLeaf(data.SI), data.MPI, data.MRI)

\* C14 (SpecVerify): the key used to check SI is the bundle's key when the
\* bundle carries one, otherwise the QR payload's key, otherwise the
\* environment's key.
C14_BundleKeyFirst ==
  (vc.pc \in {"proofs", "blockchain", "final"})
  => vc.keyUsed = (IF vc.keys.vd # 0 THEN vc.keys.vd
                   ELSE IF vc.keys.qr # 0 THEN vc.keys.qr ELSE vc.keys.env)

\* C19 (SpecVerify): verifyCertificate run from the QR payload alone of a
\* genuine certificate, whose MPI and MPU are plain lists of sibling hashes,
\* marks the intermediate and the ultimate proof valid.
C19_PositionFreeProofsAccepted ==
  (vc.pc \in {"blockchain", "final"} /\ vc.doc.source = "qr" /\ vc.doc.tamper = "none")
  => (vc.steps.intermediateProofValid /\ vc.steps.ultimateProofValid)

\* C15 (SpecAnchor): a P4 run over exactly one batch builds the ultimate tree
\* from the leaves [MRI, keccak256(MRI)]; the batch's MPU is the single sibling
\* keccak256(MRI), and its MRU is the hash of the sorted pair, which is not MRI.
C15_SingleBatchPadding ==
  \A w \in P4Workers :
    (Len(p4[w].batches) = 1 /\ p4[w].pc \in {"propagate", "anchor", "writeTx"})
    => LET b == p4[w].batches[1].id
           MRI == p4[w].batches[1].merkleRoot
           pad == keccak256(MRI)
       IN /\ calculateUltimateMerkleRoot(<<MRI>>).tree[1] = <<MRI, pad>>
          /\ Len(batch[b].merkleProofUltimate) = 1
          /\ batch[b].merkleProofUltimate[1].data = pad
          /\ batch[b].merkleRootUltimate =
               (IF BufferCompare(MRI, pad) = -1 THEN keccak256(MRI \o pad)
                ELSE keccak256(pad \o MRI))
          /\ batch[b].merkleRootUltimate # MRI

\* a single-batch run has written its batch row and gone on to anchoring
C15_SingleBatchAnchored ==
  \E w \in P4Workers :
    /\ Len(p4[w].batches) = 1
    /\ p4[w].pc = "writeTx"
    /\ batch[p4[w].batches[1].id].merkleRootUltimate # NullHash
    /\ batch[p4[w].batches[1].id].merkleRoot = p4[w].batches[1].merkleRoot

\* C16 (SpecMerkle): for every non-empty list of leaves and every leaf x of
\* it, verifyMerkleProof(x, getMerkleProof(tree, x), getMerkleRoot(tree)) is
\* true; the root of a single-leaf list is the leaf and its proof is empty.
C16_MerkleCompleteness ==
  /\ (mk.pc = "verified" /\ mk.y = mk.leaf) => mk.ok
  /\ (mk.pc \in {"built", "proved", "verified"} /\ Len(mk.leaves) = 1)
     => mk.root = mk.leaves[1]
  /\ (mk.pc \in {"proved", "verified"} /\ Len(mk.leaves) = 1) => mk.proof = <<>>

\* the proof of a repeated leaf in a list of odd length has been verified
C16_OddListWithRepeats ==
  /\ mk.pc = "verified"
  /\ mk.y = mk.leaf
  /\ mk.ok
  /\ Len(mk.leaves) = 5
  /\ mk.leaves[1] = mk.leaves[5]
  /\ mk.leaf = mk.leaves[5]
  /\ Len(mk.proof) > 0

\* C17 (SpecMerkle): a proof generated for one leaf of a tree verifies no
\* other value against the root of that tree.
C17_MerkleSoundness ==
  (mk.pc = "verified" /\ mk.y # mk.leaf) => ~mk.ok

\* a value outside a five-leaf list was put in place of the third leaf and
\* rejected
C17_SubstitutedLeafRejected ==
  /\ mk.pc = "verified"
  /\ Len(mk.leaves) = 5
  /\ mk.leaf = mk.leaves[3]
  /\ mk.y \notin Range(mk.leaves)
  /\ ~mk.ok

\* the tree of the same leaves in which an unpaired last node n contributes
\* node(n, n) to the next level
RECURSIVE createHashes_duplicateOdd(_)
createHashes_duplicateOdd(nodes) ==
  IF Len(nodes) <= 1 THEN <<nodes>>
  ELSE <<nodes>> \o createHashes_duplicateOdd(createLayer_duplicateOdd(nodes))

DuplicateOddRoot(leaves) == getMerkleRoot(createHashes_duplicateOdd(leaves))

\* C18 as stated (SpecMerkle): the root of an odd-length leaf list is the
\* root of the tree that duplicates the unpaired last node of a level.
C18_OddNodeDuplicated ==
  (mk.pc \in {"built", "proved", "verified"} /\ Len(mk.leaves) % 2 = 1)
  => mk.root = DuplicateOddRoot(mk.leaves)

\* C18 (SpecMerkle): in the tree that buildMerkleTree builds, the unpaired last
\* node of a level with an odd number of nodes is carried up unchanged as the
\* last node of the next level, and the root is the single node of the top
\* level.
C18_OddNodeCarriedUp ==
  (mk.pc \in {"built", "proved", "verified"})
  => LET tree == buildMerkleTree(mk.leaves)
     IN /\ Len(tree[Len(tree)]) = 1
        /\ mk.root = tree[Len(tree)][1]
        /\ \A k \in 1..(Len(tree) - 1) :
             /\ Len(tree[k + 1]) = (Len(tree[k]) + 1) \div 2
             /\ Len(tree[k]) % 2 = 1
                => tree[k + 1][Len(tree[k + 1])] = tree[k][Len(tree[k])]

\* a five-leaf list has been built: its levels of five and of three nodes are
\* odd, and its root is not the root of the duplicating tree
C18_FiveLeavesBuilt ==
  /\ mk.pc = "built"
  /\ Len(mk.leaves) = 5
  /\ mk.root # DuplicateOddRoot(mk.leaves)

\* C20 as stated (SpecFingerprint): for every hash and all timestamps in the
\* signed 64-bit range the fingerprint is built, is 48 bytes long (the hash, then Ed
\* and Ei as big-endian int64, none encoded as 0), and decodes to the hash
\* and the timestamps it was built from.
C20_FingerprintRoundTrip ==
  LET Given(t) == IF t.null THEN Zero ELSE [t EXCEPT !.null = FALSE]
  IN /\ fp.pc # "threw"
     /\ fp.pc \in {"encoded", "decoded"}
        => /\ Len(fp.fingerprint) = 48
           /\ fp.Ed.null => SubSeq(fp.fingerprint, 33, 40) = Zero.mag
           /\ fp.Ei.null => SubSeq(fp.fingerprint, 41, 48) = Zero.mag
     /\ fp.pc = "decoded"
        => fp.out = [documentHash |-> fp.documentHash,
                     edTimestamp |-> Given(fp.Ed), eiTimestamp |-> Given(fp.Ei)]

\* C20 (SpecFingerprint): for every hash and all timestamps whose magnitude
\* fits the 53-bit mantissa of a double, the fingerprint is built, is 48 bytes
\* long (the hash, then Ed and Ei as big-endian int64, none encoded as 0), and
\* decodes to the hash and the timestamps it was built from.
C20_RoundTripInDoubleRange ==
  LET Exact(t) == BitLength(BytesToBits(t.mag)) <= DoubleMantissaBits
  IN (Exact(fp.Ed) /\ Exact(fp.Ei)) => C20_FingerprintRoundTrip

\* a negative Ed and no Ei have been encoded and decoded again
C20_NegativeAndNullDecoded ==
  /\ fp.pc = "decoded"
  /\ fp.Ed = BigInt(TRUE, <<0, 0, 0, 0, 0, 0, 0, 1>>)
  /\ fp.Ei.null
  /\ fp.out.edTimestamp = fp.Ed
  /\ fp.out.eiTimestamp = Zero
  /\ Len(fp.fingerprint) = 48

\* ---------------------------------------------------------------- C21
LoopHeads ==
  <<p1["c1"].pc \in {"idle", "stopped"} /\ fetched = {},
    p3["m1"].pc \in {"poll", "stopped"},
    p4["u1"].pc \in {"poll", "stopped"},
    p5.pc \in {"poll", "stopped"},
    p6.pc \in {"poll", "stopped"}>>

AllLoopsStopped ==
  /\ p1["c1"].pc = "stopped"
  /\ p3["m1"].pc = "stopped"
  /\ p4["u1"].pc = "stopped"
  /\ p5.pc = "stopped"
  /\ p6.pc = "stopped"

C22_ThrowEndsFailed ==
  [][\A c \in P1Callers :
       p1[c].pc = "fail" /\ p1'[c].pc = "idle" =>
         /\ job'[p1[c].jobId].status = "Failed"
         /\ job'[p1[c].jobId].errorMessage]_vars

\* ---------------------------------------------------------------- C23
\* C23: when the handler returns, batchItemFailures lists exactly the records
\* whose processing failed (unparsable message, or certificate generation
\* for its jobId failed); records processed successfully are not listed.
C23_FailedRecordsListed ==
  lam.pc = "done" => lam.batchItemFailures = lam.failed

\* ---------------------------------------------------------------- C24
\* C24: at the step in which finalizeBatch writes the MRI of a batch, no job
\* of the batch is PendingSigning and at least one is Generated.
C24_FinalizedOnlyWhenAllSigned ==
  [][\A b \in Batches :
       batch[b].merkleRoot = NullHash /\ batch'[b].merkleRoot # NullHash =>
         /\ \A j \in JobsOfBatch(b) : job[j].status # "PendingSigning"
         /\ \E j \in JobsOfBatch(b) : job[j].status = "Generated"]_vars

\* ---------------------------------------------------------------- C25
\* C25: a batch without MRI that has a Generated job and no PendingSigning
\* job is eventually finalized, however many other batches without MRI are
\* waiting for signatures.
C25_ReadyBatchFinalized ==
  \A b \in 1..MRIBatches :
    (/\ batch[b].merkleRoot = NullHash
     /\ CountJobs(b, "Generated") > 0
     /\ CountJobs(b, "PendingSigning") = 0) ~> (batch[b].merkleRoot # NullHash)

C27_TxRootIsBatchMRU ==
  \A b \in Batches :
    batch[b].txHash # 0 => chain[batch[b].txHash] = batch[b].merkleRootUltimate

\* ---------------------------------------------------------------- C28
\* enum('Pending', 'Processing', 'PendingSigning', 'Generated', 'Failed') and
\* the moves between them that the claim allows
StatusMoves ==
  {<<"Pending", "Processing">>, <<"Processing", "PendingSigning">>,
   <<"Processing", "Generated">>, <<"Processing", "Failed">>,
   <<"PendingSigning", "Generated">>}

\* C28: every change of a job's status is one of Pending -> Processing,
\* Processing -> PendingSigning | Generated | Failed and PendingSigning ->
\* Generated; so Generated and Failed are never left and no job returns to
\* Pending.
C28_StatusMovesForward ==
  [][\A j \in Jobs :
       job'[j].status # job[j].status => <<job[j].status, job'[j].status>> \in StatusMoves]_vars

\* a job that went through PendingSigning and was signed from outside while
\* a second call for it was turned away
C28_SignedAfterPendingSigning ==
  \E j \in Jobs :
    /\ job[j].status = "Generated"
    /\ job[j].issuerSignature \in ExtSigs
    /\ j \in zeroRows

\* ---------------------------------------------------------------- C29
\* C29: a job that processJobById has moved to Processing eventually is
\* PendingSigning, Generated or Failed, with its id out of processingJobs.
C29_ProcessingJobSettles ==
  \A j \in 1..WorkerJobs :
    (job[j].status = "Processing")
      ~> (/\ job[j].status \in {"PendingSigning", "Generated", "Failed"}
          /\ j \notin processingJobs["A"])

\* ---------------------------------------------------------------- C30
\* C30: when verifyCertificate has returned for a document for which an issuer
\* public key was available, and the PDF bytes that were hashed, or the
\* timestamps Ed/Ei of the verification data, are not the signed ones, the
\* result is not valid.
C30_TamperWithKeyRejected ==
  (/\ vc.pc = "returned"
   /\ vc.doc.source # "none"
   /\ selectIssuerPublicKey(vc.doc.source, vc.keys) # 0
   /\ (~vc.doc.intact \/ ~VCData(vc.doc).datesAsSigned))
  => ~vc.valid

\* a bundle with the issuer's key and untouched proofs for altered PDF bytes:
\* the hash mismatch is a warning, the signature failure the only error
C30_HashMismatchWarningAndSignatureError ==
  /\ vc.pc = "returned"
  /\ vc.doc.source = "vd" /\ vc.doc.tamper = "none" /\ ~vc.doc.intact
  /\ vc.keyUsed = IssuerKey
  /\ "Document hash mismatch" \in vc.warnings
  /\ vc.errors = {"Issuer signature (SI) verification failed"}
  /\ ~vc.valid

====
